---- MODULE Spec2Model ----
(***************************************************************************)
(* A model of util/helm/cmd.go: the Cmd wrapper around the helm binary.    *)
(*                                                                         *)
(* The filesystem is the set fs of the paths that exist.  A path is the    *)
(* unique part of a temporary name; helmHome is the session's directory.   *)
(* Every method of Cmd is one action (the calls are synchronous), and      *)
(* `last` records the most recent call: its inputs, the facts of the state *)
(* it was called in, its result, whether it started the helm process, the  *)
(* argument list it passed to run, and the credential files it created.    *)
(* The pure text functions (redactor, cleanSetParameters) are operators on *)
(* sequences of one-character strings and have specifications of their own.*)
(***************************************************************************)
EXTENDS Integers, Sequences, FiniteSets, TLC

VARIABLES profile, fs, closed, last, prev, input, outs

vars == <<profile, fs, closed, last, prev, input, outs>>

(* ------------------------------ bounds -------------------------------- *)

\* Temporary names available to ioutil.TempDir / ioutil.TempFile.
MaxTmp == 3
\* Longest value string given to cleanSetParameters.
MaxLen == 4
\* Most tokens on a command line given to redactor.
MaxTokens == 6

(* --------------------------- generic helpers -------------------------- *)

RECURSIVE Str(_)
\* A sequence of characters as one string (Go's string concatenation).
Str(s) == IF s = <<>> THEN "" ELSE Head(s) \o Str(Tail(s))

RECURSIVE Flatten(_)
Flatten(ss) == IF ss = <<>> THEN <<>> ELSE Head(ss) \o Flatten(Tail(ss))

\* All orders in which the keys of a set can be visited.
Orders(S) ==
    { o \in [1..Cardinality(S) -> S] : \A i, j \in DOMAIN o : i # j => o[i] # o[j] }

(* ------------------------------ errors -------------------------------- *)

NoError == "nil"
ExecutionError == "ExecutionError"
TempDirError == "TempDirError"
CredentialMaterializationError == "CredentialMaterializationError"
SessionClosedError == "SessionClosedError"

(* ---------------------------- filesystem ------------------------------ *)

\* c.helmHome: the directory NewCmdWithVersion obtained from ioutil.TempDir.
helmHome == 0

TmpIds == 1..MaxTmp

\* ioutil.TempFile / ioutil.TempDir: a name that does not exist yet.
TempName(f) == CHOOSE n \in TmpIds \ f : \A m \in TmpIds \ f : n <= m

TmpPath(prefix, n) == "/tmp/" \o prefix \o ToString(n)

RemoveAll_skips(f, path) == f

\* os.RemoveAll: the path is gone afterwards; a missing path is no error.
RemoveAll(f, path) == f \ {path}

RECURSIVE RemoveEach(_, _)
\* The deferred closers of one call, run at its return.
RemoveEach(f, paths) ==
    IF paths = {} THEN f
    ELSE LET p == CHOOSE q \in paths : TRUE
         IN  RemoveEach(RemoveAll(f, p), paths \ {p})

(* ------------------------------ inputs -------------------------------- *)

\* The HelmVer values a session can be constructed with.
HelmVers ==
    { [binaryName |-> "helm2", initSupported |-> TRUE, pullCommand |-> "fetch",
       showCommand |-> "inspect", templateNameArg |-> "--name",
       kubeVersionSupported |-> TRUE],
      [binaryName |-> "helm", initSupported |-> FALSE, pullCommand |-> "pull",
       showCommand |-> "show", templateNameArg |-> "--name-template",
       kubeVersionSupported |-> FALSE],
      [binaryName |-> "helm2", initSupported |-> TRUE, pullCommand |-> "fetch",
       showCommand |-> "inspect", templateNameArg |-> "--name",
       kubeVersionSupported |-> FALSE] }

NoData == ""

\* Credential bundles: every combination of the inline flags without client
\* certificate, and every combination of CA path, certificate and key.
CredsSet ==
    [ Username : {"", "u"}, Password : {"", "p"}, CAPath : {""},
      CertData : {NoData}, KeyData : {NoData} ]
    \cup
    [ Username : {"u"}, Password : {"p"}, CAPath : {"", "ca.pem"},
      CertData : {NoData, "CERT"}, KeyData : {NoData, "KEY"} ]

Versions == {"", "1.2.3"}

\* Where a call can fail while it materializes the certificate and the key.
FailPoints == {"none", "tmpdir", "certcreate", "certwrite", "keycreate", "keywrite"}

\* The places where a call with these credentials does file I/O.
FailPointsOf(creds) ==
    {"none"}
    \cup (IF creds.CertData # NoData THEN {"certcreate", "certwrite"} ELSE {})
    \cup (IF creds.KeyData # NoData THEN {"keycreate", "keywrite"} ELSE {})

NoCall ==
    [ op |-> "NewCmdWithVersion", in |-> <<>>, pre |-> [closed |-> FALSE, home |-> FALSE],
      err |-> NoError, launched |-> FALSE, args |-> <<>>, created |-> {} ]

\* No earlier call of template in this session.
NoTemplate == [ in |-> <<>>, args |-> <<>> ]

Call(op, in, err, launched, args, created) ==
    [ op |-> op, in |-> in, pre |-> [closed |-> closed, home |-> helmHome \in fs],
      err |-> err, launched |-> launched, args |-> args, created |-> created ]

(* -------------------------------- run --------------------------------- *)

run_guarded(f) ==
    IF closed THEN { [err |-> SessionClosedError, launched |-> FALSE, fs |-> f] }
    ELSE { [err |-> e, launched |-> TRUE, fs |-> g] :
             e \in {NoError, ExecutionError}, g \in {f, f \cup {helmHome}} }

\* Cmd.run: starts the helm binary with its home pointed at helmHome and waits.
\* The child succeeds or fails, and may create its directories under helmHome.
run(f) ==
    { [err |-> e, launched |-> TRUE, fs |-> g] :
        e \in {NoError, ExecutionError}, g \in {f, f \cup {helmHome}} }

(* ------------------------- calls that run helm ------------------------ *)

\* The state of a call while it builds its command: the filesystem, the
\* arguments so far, the credential files created, the removals deferred to
\* the call's return, and the error that ends it early.
Building(f, args) ==
    [ fs |-> f, args |-> args, created |-> {}, deferred |-> {}, err |-> NoError ]

\* The return of a call: c.run(args...) unless the call already failed, then
\* the deferred removals.
Return(op, in, st) ==
    IF st.err # NoError
    THEN /\ fs' = RemoveEach(st.fs, st.deferred)
         /\ last' = Call(op, in, st.err, FALSE, <<>>, st.created)
    ELSE \E r \in run(st.fs) :
         /\ fs' = RemoveEach(r.fs, st.deferred)
         /\ last' = Call(op, in, r.err, r.launched, st.args, st.created)

\* Cmd.Init
CmdInit ==
    /\ IF profile.initSupported
       THEN Return("Init", <<>>, Building(fs, <<"init", "--client-only", "--skip-refresh">>))
       ELSE /\ last' = Call("Init", <<>>, NoError, FALSE, <<>>, {})
            /\ fs' = fs
    /\ UNCHANGED <<profile, closed, prev, input, outs>>

\* The flags RepoAdd and Fetch share: --username, --password, --ca-file.
InlineCredArgs(creds) ==
    (IF creds.Username # "" THEN <<"--username", creds.Username>> ELSE <<>>)
    \o (IF creds.Password # "" THEN <<"--password", creds.Password>> ELSE <<>>)
    \o (IF creds.CAPath # "" THEN <<"--ca-file", creds.CAPath>> ELSE <<>>)

\* The temporary files a call with these credentials asks for.
FilesNeeded(creds) ==
    (IF creds.CertData # NoData THEN 1 ELSE 0) + (IF creds.KeyData # NoData THEN 1 ELSE 0)

\* RepoAdd's certificate and key blocks: ioutil.TempFile("", "helm"), Write,
\* append the flag.  The file is created in the system's temporary directory
\* and no removal is deferred for it.
RepoAddFile(st, data, flag, fail, createPoint, writePoint) ==
    IF st.err # NoError \/ data = NoData THEN st
    ELSE IF fail = createPoint THEN [st EXCEPT !.err = CredentialMaterializationError]
    ELSE LET file == TempName(st.fs) IN
         IF fail = writePoint
         THEN [st EXCEPT !.fs = @ \cup {file}, !.created = @ \cup {file},
                         !.err = CredentialMaterializationError]
         ELSE [st EXCEPT !.fs = @ \cup {file}, !.created = @ \cup {file},
                         !.args = @ \o <<flag, TmpPath("helm", file)>>]

\* Cmd.RepoAdd
RepoAdd(name, url, opts, fail) ==
    /\ Cardinality(TmpIds \ fs) >= 1 + FilesNeeded(opts)
    /\ IF fail = "tmpdir"
       THEN /\ last' = Call("RepoAdd", [creds |-> opts], TempDirError, FALSE, <<>>, {})
            /\ fs' = fs
       ELSE LET tmp  == TempName(fs)
                st0  == [Building(fs \cup {tmp}, <<"repo", "add">> \o InlineCredArgs(opts))
                           EXCEPT !.deferred = {tmp}]
                st1  == RepoAddFile(st0, opts.CertData, "--cert-file", fail,
                                    "certcreate", "certwrite")
                st2  == RepoAddFile(st1, opts.KeyData, "--key-file", fail,
                                    "keycreate", "keywrite")
                st3  == [st2 EXCEPT !.args = @ \o <<name, url>>]
            IN  Return("RepoAdd", [creds |-> opts], st3)
    /\ UNCHANGED <<profile, closed, prev, input, outs>>

\* writeToTmp: the file and its closer, or an error with the file removed.
writeToTmp(f, fail, createPoint, writePoint) ==
    IF fail = createPoint THEN [err |-> CredentialMaterializationError, fs |-> f, made |-> {}]
    ELSE LET file == TempName(f) IN
         IF fail = writePoint
         THEN [err |-> CredentialMaterializationError,
               fs |-> RemoveAll(f \cup {file}, file), made |-> {file}]
         ELSE [err |-> NoError, fs |-> f \cup {file}, made |-> {file}]

\* Fetch's certificate and key blocks: writeToTmp, defer util.Close(closer),
\* append the flag.
FetchFile(st, data, flag, fail, createPoint, writePoint) ==
    IF st.err # NoError \/ data = NoData THEN st
    ELSE LET w == writeToTmp(st.fs, fail, createPoint, writePoint) IN
         IF w.err # NoError
         THEN [st EXCEPT !.fs = w.fs, !.created = @ \cup w.made, !.err = w.err]
         ELSE [st EXCEPT !.fs = w.fs, !.created = @ \cup w.made,
                         !.deferred = @ \cup w.made,
                         !.args = @ \o <<flag, TmpPath("", CHOOSE n \in w.made : TRUE)>>]

FetchVersionArgs_always(version) == <<"--version", version>>

\* Fetch: the optional --version pair.
FetchVersionArgs(version) ==
    IF version # "" THEN <<"--version", version>> ELSE <<>>

\* Cmd.Fetch
Fetch(repo, chartName, version, destination, creds, fail) ==
    /\ Cardinality(TmpIds \ fs) >= FilesNeeded(creds)
    /\ LET st0 == Building(fs, <<profile.pullCommand, "--destination", destination>>
                               \o FetchVersionArgs(version) \o InlineCredArgs(creds))
           st1 == FetchFile(st0, creds.CertData, "--cert-file", fail,
                            "certcreate", "certwrite")
           st2 == FetchFile(st1, creds.KeyData, "--key-file", fail,
                            "keycreate", "keywrite")
           st3 == [st2 EXCEPT !.args = @ \o <<"--repo", repo, chartName>>]
       IN  Return("Fetch",
                  [repo |-> repo, chartName |-> chartName, version |-> version,
                   destination |-> destination, creds |-> creds], st3)
    /\ UNCHANGED <<profile, closed, prev, input, outs>>

\* Cmd.dependencyBuild
dependencyBuild ==
    /\ Return("dependencyBuild", <<>>, Building(fs, <<"dependency", "build">>))
    /\ UNCHANGED <<profile, closed, prev, input, outs>>

\* Cmd.inspectValues
inspectValues(values) ==
    /\ Return("inspectValues", <<>>, Building(fs, <<profile.showCommand, "values", values>>))
    /\ UNCHANGED <<profile, closed, prev, input, outs>>

\* Cmd.Close: the result of os.RemoveAll is discarded.
Close ==
    /\ fs' = RemoveAll(fs, helmHome)
    /\ closed' = TRUE
    /\ last' = Call("Close", <<>>, NoError, FALSE, <<>>, {})
    /\ UNCHANGED <<profile, prev, input, outs>>

\* helmHome lies in the shared temporary directory: something else removes it.
ExternalRemoveHome ==
    /\ helmHome \in fs
    /\ fs' = fs \ {helmHome}
    /\ UNCHANGED <<profile, closed, last, prev, input, outs>>

(* ------------------------------ template ------------------------------ *)

RECURSIVE cleanFrom(_, _)
\* re.ReplaceAllString(val, `$1\,`) with re = `([^\\]),`, from position i on:
\* the leftmost match is one character other than a backslash and the comma
\* after it; the search goes on behind the match.
cleanFrom(val, i) ==
    IF i > Len(val) THEN <<>>
    ELSE IF i < Len(val) /\ val[i] # "\\" /\ val[i + 1] = ","
         THEN <<val[i], "\\", ",">> \o cleanFrom(val, i + 2)
         ELSE <<val[i]>> \o cleanFrom(val, i + 1)

\* cleanSetParameters
cleanSetParameters(val) == cleanFrom(val, 1)

\* One range loop of template over a map, its keys visited in the given order.
SetArgs(flag, m, order) ==
    Flatten([ i \in DOMAIN order |->
                <<flag, order[i] \o "=" \o Str(cleanSetParameters(m[order[i]]))>> ])

\* One range loop of template over a slice.
ListArgs(flag, list) == Flatten([ i \in DOMAIN list |-> <<flag, list[i]>> ])

KubeVersionArgs_unchecked(opts) ==
    IF opts.KubeVersion # "" THEN <<"--kube-version", opts.KubeVersion>> ELSE <<>>

\* template: the optional --kube-version pair.
KubeVersionArgs(opts) ==
    IF opts.KubeVersion # "" /\ profile.kubeVersionSupported
    THEN <<"--kube-version", opts.KubeVersion>> ELSE <<>>

\* The argument list of template when the maps are visited in these orders.
TemplateArgs(chartPath, opts, oSet, oSetString, oSetFile) ==
    <<"template", chartPath, profile.templateNameArg, opts.Name>>
    \o (IF opts.Namespace # "" THEN <<"--namespace", opts.Namespace>> ELSE <<>>)
    \o KubeVersionArgs(opts)
    \o SetArgs("--set", opts.Set, oSet)
    \o SetArgs("--set-string", opts.SetString, oSetString)
    \o SetArgs("--set-file", opts.SetFile, oSetFile)
    \o ListArgs("--values", opts.Values)
    \o ListArgs("--api-versions", opts.APIVersions)

\* Cmd.template.  Go visits the entries of a map in an order it does not
\* specify and varies from one range statement to the next.
template(chartPath, opts) ==
    /\ \E oSet \in Orders(DOMAIN opts.Set),
          oSetString \in Orders(DOMAIN opts.SetString),
          oSetFile \in Orders(DOMAIN opts.SetFile) :
          Return("template", [chartPath |-> chartPath, opts |-> opts],
                 Building(fs, TemplateArgs(chartPath, opts, oSet, oSetString, oSetFile)))
    /\ prev' = IF last.op = "template" THEN [in |-> last.in, args |-> last.args] ELSE prev
    /\ UNCHANGED <<profile, closed, input, outs>>

\* Maps from some of the keys to the values.
Maps(keys, values) == UNION { [K -> values] : K \in SUBSET keys }

\* The options of the template calls of a whole session.
SessionTemplateOpts ==
    [ Name : {"r1"}, Namespace : {""}, KubeVersion : {"1.18"}, APIVersions : {<<>>},
      Set : {[k \in {"a"} |-> <<"x", ",", "y">>]}, SetString : {<<>>}, SetFile : {<<>>},
      Values : {<<>>} ]

\* The options of the template calls checked on their own.
TemplateOptsSet ==
    [ Name : {"r1"}, Namespace : {"", "ns"}, KubeVersion : {"", "1.18"},
      APIVersions : {<<"v1">>},
      Set : { <<>>, [k \in {"a", "b"} |-> IF k = "a" THEN <<"x", ",", "y">> ELSE <<",", "x">>] },
      SetString : Maps({"s"}, {<<"x">>}), SetFile : {<<>>},
      Values : {<<"values.yaml">>} ]

(* ------------------------------ redactor ------------------------------ *)

Username == <<"-", "-", "u", "s", "e", "r", "n", "a", "m", "e">>
Password == <<"-", "-", "p", "a", "s", "s", "w", "o", "r", "d">>
Mask == <<"*", "*", "*", "*", "*", "*">>

\* The pattern pat stands in text at position i.
HasAt(text, i, pat) ==
    /\ i + Len(pat) - 1 <= Len(text)
    /\ SubSeq(text, i, i + Len(pat) - 1) = pat

RECURSIVE ValueEnd(_, _)
\* [^ ]* from position j: the first position it does not take.
ValueEnd(text, j) ==
    IF j > Len(text) \/ text[j] = " " THEN j ELSE ValueEnd(text, j + 1)

RECURSIVE redactFrom(_, _, _)
\* ReplaceAllString(text, "$1 ******") for the pattern "(f1|f2|...) [^ ]*" from
\* position i on: at the leftmost position where a flag and a space stand, the
\* flag, the space and the mask replace the match; the search goes on behind it.
redactFrom(text, i, flags) ==
    IF i > Len(text) THEN <<>>
    ELSE IF \E k \in DOMAIN flags : HasAt(text, i, flags[k] \o <<" ">>)
         THEN LET k == CHOOSE k \in DOMAIN flags : HasAt(text, i, flags[k] \o <<" ">>)
              IN  flags[k] \o <<" ">> \o Mask
                  \o redactFrom(text, ValueEnd(text, i + Len(flags[k]) + 1), flags)
         ELSE <<text[i]>> \o redactFrom(text, i + 1, flags)

redactor_passwordOnly(text) == redactFrom(text, 1, <<Password>>)

\* redactor: "(--username|--password) [^ ]*" becomes "$1 ******".
redactor(text) == redactFrom(text, 1, <<Username, Password>>)

RECURSIVE Join(_)
\* The command line of an argument list: the arguments with one space between.
Join(toks) ==
    IF toks = <<>> THEN <<>>
    ELSE IF Len(toks) = 1 THEN toks[1]
    ELSE toks[1] \o <<" ">> \o Join(Tail(toks))

\* The tokens a command line is made of.
Tokens == { Username, Password, <<"x">>, <<"y", "z">>, <<"k">> }

CommandLines == UNION { [1..n -> Tokens] : n \in 1..MaxTokens }

\* Cmd.run hands redactor to the runner, which applies it to the command line.
Redact ==
    /\ outs = <<>>
    /\ outs' = <<redactor(Join(input))>>
    /\ UNCHANGED <<profile, fs, closed, last, prev, input>>

(* ------------------------ cleanSetParameters alone --------------------- *)

Chars == {"a", ",", "\\"}

ValueStrings == UNION { [1..n -> Chars] : n \in 0..MaxLen }

\* cleanSetParameters applied to the value, and once more to its own result.
Clean ==
    /\ Len(outs) < 2
    /\ outs' = Append(outs, cleanSetParameters(IF outs = <<>> THEN input ELSE outs[Len(outs)]))
    /\ UNCHANGED <<profile, fs, closed, last, prev, input>>

(* ------------------------------ the model ----------------------------- *)

Init ==
    /\ profile \in HelmVers
    /\ fs = {helmHome}
    /\ closed = FALSE
    /\ last = NoCall
    /\ prev = NoTemplate
    /\ input = <<>>
    /\ outs = <<>>

Next ==
    \/ CmdInit
    \/ \E opts \in CredsSet : \E fail \in FailPointsOf(opts) \cup {"tmpdir"} :
          RepoAdd("myrepo", "https://example.com", opts, fail)
    \/ \E version \in Versions, creds \in CredsSet : \E fail \in FailPointsOf(creds) :
          Fetch("https://example.com", "chart", version, "dest", creds, fail)
    \/ dependencyBuild
    \/ inspectValues("values.yaml")
    \/ \E opts \in SessionTemplateOpts : template("./chart", opts)
    \/ Close
    \/ ExternalRemoveHome

Spec == Init /\ [][Next]_vars

\* The template calls of a session on their own, with richer options.
NextTemplate ==
    \/ \E opts \in TemplateOptsSet : template("./chart", opts)
    \/ Close

SpecTemplate == Init /\ [][NextTemplate]_vars

\* A session that is not used: the state the text functions are checked in.
Idle ==
    /\ profile = CHOOSE v \in HelmVers : v.binaryName = "helm"
    /\ fs = {helmHome}
    /\ closed = FALSE
    /\ last = NoCall
    /\ prev = NoTemplate
    /\ outs = <<>>

InitRedact == Idle /\ input \in CommandLines

SpecRedact == InitRedact /\ [][Redact]_vars

InitClean == Idle /\ input \in ValueStrings

SpecClean == InitClean /\ [][Clean]_vars

(* ------------------------------- claims ------------------------------- *)

Operations == {"Init", "RepoAdd", "Fetch", "dependencyBuild", "inspectValues", "template"}

CredentialCalls == {"RepoAdd", "Fetch"}

\* How often the string occurs in the argument list.
Count(args, flag) == Cardinality({ i \in DOMAIN args : args[i] = flag })

\* The flag stands in the argument list with the value right behind it.
HasPair(args, flag, value) ==
    \E i \in 1..(Len(args) - 1) : args[i] = flag /\ args[i + 1] = value

\* C1: after RepoAdd or Fetch called with a certificate or a key has returned,
\* with or without error, none of the files it created for them exists.
C1_NoCredentialFileRemains ==
    (last.op \in CredentialCalls /\ FilesNeeded(last.in.creds) > 0)
        => last.created \cap fs = {}

C3_CloseIdempotent ==
    [][ Close => /\ helmHome \notin fs'
                 /\ last'.err = NoError
                 /\ (helmHome \notin fs => fs' = fs /\ profile' = profile) ]_vars

C3_Witness ==
    /\ last.op = "Close"
    /\ last.pre.closed
    /\ ~last.pre.home
    /\ helmHome \notin fs

\* C7: the argument list of Fetch starts with the pull command and the
\* destination, ends with --repo, the repository and the chart, has no
\* --version when version is empty, and otherwise has --version and the version
\* once, right behind the destination.
C7_FetchVersionFlag ==
    (last.op = "Fetch" /\ last.launched)
        => LET a == last.args
               n == Len(a)
               v == last.in.version
           IN  /\ n >= 6
               /\ SubSeq(a, 1, 3) = <<profile.pullCommand, "--destination", last.in.destination>>
               /\ SubSeq(a, n - 2, n) = <<"--repo", last.in.repo, last.in.chartName>>
               /\ Count(a, "--version") = (IF v = "" THEN 0 ELSE 1)
               /\ v # "" => (n >= 8 /\ a[4] = "--version" /\ a[5] = v /\ Count(a, v) = 1)

C7_Witness ==
    /\ last.op = "Fetch"
    /\ last.launched
    /\ last.in.version = "1.2.3"
    /\ last.in.creds.Username # ""
    /\ last.in.creds.CertData # NoData
    /\ last.in.creds.KeyData # NoData
    /\ Len(last.args) = 18

\* C10: when RepoAdd or Fetch fails to create or write a credential file, it
\* returns the error without starting the helm process, and none of the
\* credential files it created exists any more.
C10_FailedMaterializationCleansUp ==
    (last.op \in CredentialCalls /\ last.err = CredentialMaterializationError)
        => (~last.launched /\ last.created \cap fs = {})

\* C8: template passes --kube-version and the version exactly when the profile
\* supports it and KubeVersion is not empty; without support no --kube-version
\* is passed at all.
C8_KubeVersionFlag ==
    last.op = "template"
        => LET a == last.args
               v == last.in.opts.KubeVersion
           IN  /\ HasPair(a, "--kube-version", v) <=> (profile.kubeVersionSupported /\ v # "")
               /\ ~profile.kubeVersionSupported => Count(a, "--kube-version") = 0

C8_Witness ==
    /\ last.op = "template"
    /\ ~profile.kubeVersionSupported
    /\ last.in.opts.KubeVersion = "1.18"
    /\ last.launched

\* C9: two template calls of one session with the same chart path and the same
\* options pass the same argument list.
C9_TemplateArgsDeterministic ==
    (last.op = "template" /\ prev.in = last.in) => prev.args = last.args

\* The text occurs somewhere in the other.
Contains(text, pat) == \E i \in 1..(Len(text) + 1) : HasAt(text, i, pat)

RECURSIVE Split(_)
\* The tokens of a command line: the pieces between its spaces.
Split(text) ==
    LET e == ValueEnd(text, 1)
    IN  IF e > Len(text) THEN <<text>>
        ELSE <<SubSeq(text, 1, e - 1)>> \o Split(SubSeq(text, e + 1, Len(text)))

IsFlag(tok) == tok \in {Username, Password}

\* The places i where --username X --password Y stands in the tokens, X and Y
\* being values and not flag names.
CredentialPlaces(toks) ==
    { i \in 1..(Len(toks) - 3) :
        /\ toks[i] = Username /\ ~IsFlag(toks[i + 1])
        /\ toks[i + 2] = Password /\ ~IsFlag(toks[i + 3]) }

RECURSIVE MaskedFrom(_, _)
\* The tokens from the i-th on, read from left to right: the token behind a
\* flag is its value and is masked, whatever it is.
MaskedFrom(toks, i) ==
    IF i > Len(toks) THEN <<>>
    ELSE IF IsFlag(toks[i]) /\ i < Len(toks)
         THEN <<toks[i], Mask>> \o MaskedFrom(toks, i + 2)
         ELSE <<toks[i]>> \o MaskedFrom(toks, i + 1)

\* C4: for a command line with --username X --password Y, neither X nor Y
\* occurs in what redactor returns, and every other token is kept as it was.
C4_RedactedEverywhere ==
    outs # <<>>
        => \A i \in CredentialPlaces(input) :
              /\ ~Contains(outs[1], input[i + 1])
              /\ ~Contains(outs[1], input[i + 3])
              /\ LET o == Split(outs[1])
                 IN  /\ Len(o) = Len(input)
                     /\ \A j \in DOMAIN input \ {i + 1, i + 3} : o[j] = input[j]

\* C4, amended: redactor reads the tokens from left to right and replaces the
\* token behind each --username and --password by the mask; a token that does
\* not stand behind a flag is kept as it was.  So where --username X
\* --password Y stands and this --username is not itself the value of a flag
\* before it, the tokens X and Y are masked there, while the same text
\* elsewhere on the line stays.
C4_RedactsFlagValues ==
    outs # <<>>
        => LET o == Split(outs[1])
           IN  /\ outs[1] = Join(MaskedFrom(input, 1))
               /\ Len(o) = Len(input)
               /\ \A j \in DOMAIN input : (j = 1 \/ ~IsFlag(input[j - 1])) => o[j] = input[j]
               /\ \A i \in CredentialPlaces(input) :
                     (i = 1 \/ ~IsFlag(input[i - 1])) => (o[i + 1] = Mask /\ o[i + 3] = Mask)

C4_Witness ==
    /\ input = <<Username, <<"x">>, Password, <<"y", "z">>, <<"x">>>>
    /\ outs = <<Join(<<Username, Mask, Password, Mask, <<"x">>>>)>>

\* The value with a backslash put before every comma that has none before it.
EscapeCommas(val) ==
    Flatten([ i \in DOMAIN val |->
                IF val[i] = "," /\ (i = 1 \/ val[i - 1] # "\\")
                THEN <<"\\", ",">> ELSE <<val[i]>> ])

UnescapedComma(val) ==
    \E i \in DOMAIN val : val[i] = "," /\ (i = 1 \/ val[i - 1] # "\\")

\* C5: cleanSetParameters puts a backslash before every comma that has none
\* before it, wherever the comma stands, and leaves the other commas alone: its
\* result has no unescaped comma.
C5_EveryCommaEscaped ==
    Len(outs) >= 1 => (outs[1] = EscapeCommas(input) /\ ~UnescapedComma(outs[1]))

\* C6: cleanSetParameters applied to its own result returns it unchanged.
C6_CleanIdempotent ==
    Len(outs) = 2 => outs[2] = outs[1]

====
